---------------------------- MODULE Spec2Model ----------------------------
(***************************************************************************)
(* Growth-percentile evaluation engine of the pediatric application:       *)
(* Patient.get_age_months / get_age_display / get_applicable_standard,     *)
(* Measurement.bmi, the GrowthPercentile reference table, the patient and  *)
(* measurement views and the two chart endpoints.                          *)
(*                                                                         *)
(* Dates are triples <<year, month, day>>.  Python floats are modelled as  *)
(* exact rationals <<numerator, denominator>> in lowest terms with a       *)
(* positive denominator.                                                   *)
(***************************************************************************)
EXTENDS Integers, Sequences, FiniteSets, TLC

VARIABLES
    today,              \* date.today()
    patients,           \* Patient rows: pk -> [date_of_birth, gender]
    nextPatientId,      \* the next Patient pk
    measurements,       \* Measurement rows: pk -> [patient, measurement_date, height, weight]
    nextMeasurementId,  \* the next Measurement pk
    percentiles,        \* GrowthPercentile rows: pk -> row
    nextPercentileId,   \* the next GrowthPercentile pk
    response,           \* the response to the last request
    obj,    \* the object a model method is called on, with the call's arguments
    ret     \* what the last method call returned

dbVars == <<today, patients, nextPatientId, measurements, nextMeasurementId,
            percentiles, nextPercentileId, response>>
fnVars == <<obj, ret>>
vars == <<dbVars, fnVars>>

---------------------------------------------------------------------------
(* Floats as exact rationals                                               *)

Abs(n) == IF n < 0 THEN -n ELSE n

RECURSIVE Gcd(_, _)
Gcd(a, b) == IF b = 0 THEN a ELSE Gcd(b, a % b)

\* the rational n/d (d # 0), in lowest terms
Rat(n, d) ==
    LET g == Gcd(Abs(n), Abs(d))
        s == IF d < 0 THEN -1 ELSE 1
    IN  <<(s * n) \div g, (s * d) \div g>>

Float(n) == Rat(n, 1)
RatMul(a, b) == Rat(a[1] * b[1], a[2] * b[2])
RatDiv(a, b) == Rat(a[1] * b[2], a[2] * b[1])
RatLT(a, b) == a[1] * b[2] < b[1] * a[2]
RatLE(a, b) == a[1] * b[2] <= b[1] * a[2]

None == "None"

---------------------------------------------------------------------------
(* Calendar dates and dateutil's relativedelta(dt1, dt2)                   *)

Year(dt) == dt[1]
Month(dt) == dt[2]
Day(dt) == dt[3]

DateLT(a, b) ==
    \/ Year(a) < Year(b)
    \/ Year(a) = Year(b) /\ Month(a) < Month(b)
    \/ Year(a) = Year(b) /\ Month(a) = Month(b) /\ Day(a) < Day(b)

DateLE(a, b) == a = b \/ DateLT(a, b)

IsLeap(y) == (y % 4 = 0 /\ y % 100 # 0) \/ y % 400 = 0

\* calendar.monthrange(year, month)[1]
DaysInMonth(y, m) ==
    IF m = 2 THEN (IF IsLeap(y) THEN 29 ELSE 28)
    ELSE IF m \in {4, 6, 9, 11} THEN 30 ELSE 31

IsDate(dt) == Month(dt) \in 1..12 /\ Day(dt) \in 1..DaysInMonth(Year(dt), Month(dt))

\* relativedelta._set_months: months split into years and months of one sign
SetMonths(months) ==
    IF Abs(months) > 11
    THEN LET s == IF months < 0 THEN -1 ELSE 1
         IN  [years |-> s * ((months * s) \div 12), months |-> s * ((months * s) % 12)]
    ELSE [years |-> 0, months |-> months]

\* relativedelta.__radd__: dt + rd, the day clamped to the month's last day
AddDelta(dt, rd) ==
    LET m0 == Month(dt) + rd.months
        y0 == Year(dt) + rd.years
        year == IF rd.months # 0 /\ m0 > 12 THEN y0 + 1
                ELSE IF rd.months # 0 /\ m0 < 1 THEN y0 - 1 ELSE y0
        month == IF rd.months # 0 /\ m0 > 12 THEN m0 - 12
                 ELSE IF rd.months # 0 /\ m0 < 1 THEN m0 + 12 ELSE m0
        last == DaysInMonth(year, month)
    IN  <<year, month, IF Day(dt) < last THEN Day(dt) ELSE last>>

\* the constructor's loop: months moves by one while dt2 + months overshoots dt1
RECURSIVE AdjustMonths(_, _, _)
AdjustMonths(dt1, dt2, months) ==
    LET dtm == AddDelta(dt2, SetMonths(months))
    IN  IF DateLT(dt1, dt2)
        THEN (IF DateLT(dtm, dt1) THEN AdjustMonths(dt1, dt2, months + 1)
              ELSE SetMonths(months))
        ELSE (IF DateLT(dt1, dtm) THEN AdjustMonths(dt1, dt2, months - 1)
              ELSE SetMonths(months))

\* relativedelta(dt1, dt2): the years and months fields
relativedelta(dt1, dt2) ==
    AdjustMonths(dt1, dt2,
                 (Year(dt1) - Year(dt2)) * 12 + (Month(dt1) - Month(dt2)))

---------------------------------------------------------------------------
(* Patient and Measurement methods                                         *)

WHO == "WHO"
CDC == "CDC"

\* months per year, months // 12 and months % 12
MonthsPerYear == 12
\* the WHO / CDC boundary
StandardCutoffMonths == 24
\* centimetres per metre
CmPerMetre == 100

\* Patient.get_age_months with the argument rd.months only: the years are dropped
get_age_months_no_years(date_of_birth, reference_date) ==
    relativedelta(reference_date, date_of_birth).months

\* Patient.get_age_months with the month fields subtracted, ignoring the day
get_age_months_ignoring_day(date_of_birth, reference_date) ==
    (Year(reference_date) - Year(date_of_birth)) * MonthsPerYear
        + (Month(reference_date) - Month(date_of_birth))

\* Patient.get_age_months(reference_date)
get_age_months(date_of_birth, reference_date) ==
    LET rd == relativedelta(reference_date, date_of_birth)
    IN  rd.years * MonthsPerYear + rd.months

\* Patient.get_age_display rendered from a month count, with the test months <= 12
age_display_le(months) ==
    LET years == months \div MonthsPerYear
        rem_months == months % MonthsPerYear
    IN  IF months <= MonthsPerYear THEN ToString(months) \o " months"
        ELSE ToString(years) \o " years " \o ToString(rem_months) \o " months"

\* the f-strings of Patient.get_age_display, from the month count
age_display(months) ==
    LET years == months \div MonthsPerYear
        rem_months == months % MonthsPerYear
    IN  IF years = 0 THEN ToString(months) \o " months"
        ELSE ToString(years) \o " years " \o ToString(rem_months) \o " months"

\* Patient.get_age_display(reference_date)
get_age_display(date_of_birth, reference_date) ==
    age_display(get_age_months(date_of_birth, reference_date))

\* the standard with the boundary month excluded from WHO
applicable_standard_lt(months) ==
    IF months < StandardCutoffMonths THEN WHO ELSE CDC

\* the rule of Patient.get_applicable_standard, from the month count
applicable_standard(months) ==
    IF months <= StandardCutoffMonths THEN WHO ELSE CDC

\* Patient.get_applicable_standard(reference_date)
get_applicable_standard(date_of_birth, reference_date) ==
    applicable_standard(get_age_months(date_of_birth, reference_date))

\* Measurement.bmi dividing by the height in metres, not by its square
bmi_not_squared(height, weight) ==
    IF RatLT(Float(0), height)
    THEN RatDiv(weight, RatDiv(height, Float(CmPerMetre)))
    ELSE None

\* Measurement.bmi
bmi(height, weight) ==
    IF RatLT(Float(0), height)
    THEN LET height_m == RatDiv(height, Float(CmPerMetre))
         IN  RatDiv(weight, RatMul(height_m, height_m))
    ELSE None

---------------------------------------------------------------------------
(* Method calls on one object: the inputs are drawn in InitFn               *)

\* number of reference years from 2023 on
NumYears == 3

DaySet == {1, 15, 28, 29, 30, 31}

FnRefDates ==
    {dt \in (2023..(2022 + NumYears)) \X (1..12) \X DaySet : IsDate(dt)}

FnBirthDates == {dt \in FnRefDates : Year(dt) = 2023} \cup {<<2024, 2, 29>>}

\* heights in cm and weights in kg, inside and outside the validators' ranges
FnHeights == {Rat(t, 10) : t \in {-50, 0, 5, 100, 650, 1000, 2500, 3000}}
FnWeights == {Rat(t, 10) : t \in {-10, 0, 5, 10, 75, 120, 2000, 2500}}

EmptyMap == <<>>

NoResponse == [view |-> "none", args |-> <<>>, status |-> 0, body |-> None]

\* the object no method is called on while the views run
IdleObj == [date_of_birth |-> <<2023, 6, 1>>, reference_date |-> <<2023, 8, 1>>,
            height |-> Float(65), weight |-> Rat(15, 2)]

NoCall == [op |-> "none", raised |-> None, value |-> None]

InitFn ==
    /\ \/ obj \in [date_of_birth : FnBirthDates, reference_date : FnRefDates,
                   height : {Float(65)}, weight : {Rat(15, 2)}]
       \/ obj \in [date_of_birth : {<<2023, 6, 1>>}, reference_date : {<<2023, 8, 1>>},
                   height : FnHeights, weight : FnWeights]
    /\ ret = NoCall
    /\ today = <<2023, 8, 1>>
    /\ patients = EmptyMap
    /\ nextPatientId = 1
    /\ measurements = EmptyMap
    /\ nextMeasurementId = 1
    /\ percentiles = EmptyMap
    /\ nextPercentileId = 1
    /\ response = NoResponse

CallGetAgeMonths ==
    /\ ret' = [op |-> "get_age_months", raised |-> None,
               value |-> get_age_months(obj.date_of_birth, obj.reference_date)]
    /\ UNCHANGED <<obj, dbVars>>

CallGetAgeDisplay ==
    /\ ret' = [op |-> "get_age_display", raised |-> None,
               value |-> get_age_display(obj.date_of_birth, obj.reference_date)]
    /\ UNCHANGED <<obj, dbVars>>

CallGetApplicableStandard ==
    /\ ret' = [op |-> "get_applicable_standard", raised |-> None,
               value |-> get_applicable_standard(obj.date_of_birth, obj.reference_date)]
    /\ UNCHANGED <<obj, dbVars>>

CallBmi ==
    /\ ret' = [op |-> "bmi", raised |-> None, value |-> bmi(obj.height, obj.weight)]
    /\ UNCHANGED <<obj, dbVars>>

NextFn ==
    \/ CallGetAgeMonths
    \/ CallGetAgeDisplay
    \/ CallGetApplicableStandard
    \/ CallBmi

SpecFn == InitFn /\ [][NextFn]_vars

ObjAge == get_age_months(obj.date_of_birth, obj.reference_date)

---------------------------------------------------------------------------
(* The GrowthPercentile reference table and its admin (add, change, delete) *)

Genders == {"Male", "Female"}
ChartTypes == {"Height", "Weight"}
Standards == {WHO, CDC}

\* MinValueValidator(0) and MaxValueValidator(240) of age_in_months
MinAgeInMonths == 0
MaxAgeInMonths == 240

\* a row's nine percentile values around its median, all different
PercentileRow(age, gender, chart_type, standard, median) ==
    [age_in_months |-> age, gender |-> gender, chart_type |-> chart_type,
     standard |-> standard,
     percentile_2nd |-> Float(median - 4), percentile_5th |-> Float(median - 3),
     percentile_10th |-> Float(median - 2), percentile_25th |-> Float(median - 1),
     percentile_50th |-> Float(median),
     percentile_75th |-> Float(median + 1), percentile_90th |-> Float(median + 2),
     percentile_95th |-> Float(median + 3), percentile_98th |-> Float(median + 4)]

\* the fields of Meta.unique_together
unique_together(row) ==
    <<row.age_in_months, row.gender, row.chart_type, row.standard>>

\* a table without the uniqueness constraint: every row passes
validate_unique_missing(row, exclude_pk) == TRUE

\* the check the constraint stands for: no other stored row has the row's key
validate_unique(row, exclude_pk) ==
    \A pk \in DOMAIN percentiles \ {exclude_pk} :
        unique_together(percentiles[pk]) # unique_together(row)

\* the field validators of GrowthPercentile, run by the admin form
clean_fields(row) ==
    /\ row.age_in_months >= MinAgeInMonths
    /\ row.age_in_months <= MaxAgeInMonths
    /\ row.gender \in Genders
    /\ row.chart_type \in ChartTypes
    /\ row.standard \in Standards

\* most rows the table ever receives
MaxRows == 2

\* the rows an administrator submits: every key at two ages, one key with other
\* values too, and one age past the validator's maximum
RowInputs ==
    {PercentileRow(a, g, c, st, 50) :
        a \in {0, 12}, g \in Genders, c \in ChartTypes, st \in Standards}
        \cup {PercentileRow(0, "Female", "Weight", WHO, 12),
              PercentileRow(241, "Male", "Weight", CDC, 50)}

AdminResponse(view, status, body) ==
    [view |-> view, args |-> <<>>, status |-> status, body |-> body]

\* GrowthPercentileAdmin add view, POST
admin_add_growthpercentile(row) ==
    /\ (clean_fields(row) /\ validate_unique(row, 0)) => nextPercentileId <= MaxRows
    /\ IF ~clean_fields(row)
       THEN /\ response' = AdminResponse("admin_add_growthpercentile", 200,
                                         "ValidationError")
            /\ UNCHANGED <<percentiles, nextPercentileId>>
       ELSE IF ~validate_unique(row, 0)
       THEN /\ response' = AdminResponse("admin_add_growthpercentile", 200,
                                         "UniqueConstraintViolation")
            /\ UNCHANGED <<percentiles, nextPercentileId>>
       ELSE /\ percentiles' = percentiles @@ (nextPercentileId :> row)
            /\ nextPercentileId' = nextPercentileId + 1
            /\ response' = AdminResponse("admin_add_growthpercentile", 302, None)
    /\ UNCHANGED <<today, patients, nextPatientId, measurements, nextMeasurementId,
                   fnVars>>

\* GrowthPercentileAdmin change view, POST
admin_change_growthpercentile(pk, row) ==
    /\ IF pk \notin DOMAIN percentiles
       THEN /\ response' = AdminResponse("admin_change_growthpercentile", 404, None)
            /\ UNCHANGED percentiles
       ELSE IF ~clean_fields(row)
       THEN /\ response' = AdminResponse("admin_change_growthpercentile", 200,
                                         "ValidationError")
            /\ UNCHANGED percentiles
       ELSE IF ~validate_unique(row, pk)
       THEN /\ response' = AdminResponse("admin_change_growthpercentile", 200,
                                         "UniqueConstraintViolation")
            /\ UNCHANGED percentiles
       ELSE /\ percentiles' = [percentiles EXCEPT ![pk] = row]
            /\ response' = AdminResponse("admin_change_growthpercentile", 302, None)
    /\ UNCHANGED <<today, patients, nextPatientId, measurements, nextMeasurementId,
                   nextPercentileId, fnVars>>

\* GrowthPercentileAdmin delete view, POST
admin_delete_growthpercentile(pk) ==
    /\ IF pk \notin DOMAIN percentiles
       THEN /\ response' = AdminResponse("admin_delete_growthpercentile", 404, None)
            /\ UNCHANGED percentiles
       ELSE /\ percentiles' = [k \in DOMAIN percentiles \ {pk} |-> percentiles[k]]
            /\ response' = AdminResponse("admin_delete_growthpercentile", 302, None)
    /\ UNCHANGED <<today, patients, nextPatientId, measurements, nextMeasurementId,
                   nextPercentileId, fnVars>>

InitTable ==
    /\ today = <<2023, 8, 1>>
    /\ patients = EmptyMap
    /\ nextPatientId = 1
    /\ measurements = EmptyMap
    /\ nextMeasurementId = 1
    /\ percentiles = EmptyMap
    /\ nextPercentileId = 1
    /\ response = NoResponse
    /\ obj = IdleObj
    /\ ret = NoCall

NextTable ==
    \/ \E row \in RowInputs : admin_add_growthpercentile(row)
    \/ \E pk \in 1..MaxRows, row \in RowInputs : admin_change_growthpercentile(pk, row)
    \/ \E pk \in 1..MaxRows : admin_delete_growthpercentile(pk)

SpecTable == InitTable /\ [][NextTable]_vars

---------------------------------------------------------------------------
(* The patient and measurement views and the two chart endpoints           *)

\* most patients and most measurements ever created
MaxPatients == 2
MaxMeasurements == 2

Methods == {"GET", "POST"}

\* the evaluation dates: the first patient below is 24 months old on the first and
\* 25 months old on the second
Todays == {<<2025, 1, 31>>, <<2025, 3, 1>>}

\* the patient forms posted: a boy born 2023-01-31 and a girl born 2024-06-15
PatientForms ==
    {[date_of_birth |-> <<2023, 1, 31>>, gender |-> "Male"],
     [date_of_birth |-> <<2024, 6, 15>>, gender |-> "Female"]}

\* measurement_date, height and weight as posted: nothing restricts them
MeasurementForm(measurement_date, height, weight) ==
    [measurement_date |-> measurement_date, height |-> height, weight |-> weight]

MeasurementForms ==
    {MeasurementForm(<<2023, 3, 1>>, Float(65), Rat(15, 2)),
     MeasurementForm(<<2024, 12, 31>>, Float(65), Rat(15, 2)),
     MeasurementForm(<<2024, 12, 31>>, Float(0), Rat(15, 2)),
     MeasurementForm(<<2023, 3, 1>>, Float(65), Float(0)),
     MeasurementForm(<<2023, 3, 1>>, Float(70), Float(8))}

\* the chart_type segment of the URL
ChartTypeInputs == {"height", "Weight", "bmi"}

\* str.lower() and str.title() on the chart types requested
Lower(str) ==
    CASE str = "height" -> "height"
      [] str = "Weight" -> "weight"
      [] str = "bmi" -> "bmi"

Title(str) ==
    CASE str = "height" -> "Height"
      [] str = "Weight" -> "Weight"
      [] str = "bmi" -> "Bmi"

\* the reference table the views run against, seeded before they run: rows by
\* primary key, not in age order, and no row for some keys
SeedTable ==
    <<PercentileRow(12, "Male", "Weight", WHO, 10),
      PercentileRow(0, "Male", "Weight", WHO, 4),
      PercentileRow(36, "Male", "Weight", CDC, 15),
      PercentileRow(24, "Male", "Weight", CDC, 13),
      PercentileRow(0, "Male", "Height", WHO, 50),
      PercentileRow(24, "Male", "Height", CDC, 87),
      PercentileRow(0, "Female", "Weight", WHO, 12),
      PercentileRow(12, "Female", "Height", WHO, 74),
      PercentileRow(0, "Female", "Height", WHO, 49)>>

\* a response, with the view that gave it; the responses of the chart endpoints
\* and of measurement_edit and measurement_delete are kept with the arguments
\* of their request
HttpResponse(view, args, status, body) ==
    [view |-> view, args |-> args, status |-> status, body |-> body]

\* the redirect (302), page (200) or Http404 of a patient view or of measurement_create
Answer(view, status, body) == HttpResponse(view, <<>>, status, body)

\* patient.measurements.all()
patient_measurements(patient_id) ==
    {mid \in DOMAIN measurements : measurements[mid].patient = patient_id}

\* .order_by('measurement_date'): every order of the rows the dates allow
order_by_measurement_date(mids) ==
    {seq \in [1..Cardinality(mids) -> mids] :
        /\ \A i, j \in 1..Cardinality(mids) : i # j => seq[i] # seq[j]
        /\ \A i, j \in 1..Cardinality(mids) :
               i < j => DateLE(measurements[seq[i]].measurement_date,
                               measurements[seq[j]].measurement_date)}

\* the rows in the order they were recorded, by primary key
RECURSIVE order_by_pk(_)
order_by_pk(mids) ==
    IF mids = {} THEN <<>>
    ELSE LET first == CHOOSE m \in mids : \A o \in mids : m <= o
         IN  <<first>> \o order_by_pk(mids \ {first})

\* the patient's measurements unsorted, in the order recorded
unordered_measurements(mids) == {order_by_pk(mids)}

\* patient.measurements.all().order_by('measurement_date')
ordered_measurements(mids) == order_by_measurement_date(mids)

\* Measurement.age_at_measurement
age_at_measurement(m) ==
    get_age_months(patients[m.patient].date_of_birth, m.measurement_date)

\* the keys in descending order
RECURSIVE sorted_descending(_)
sorted_descending(keys) ==
    IF keys = {} THEN <<>>
    ELSE LET most == CHOOSE k \in keys : \A o \in keys : o <= k
         IN  <<most>> \o sorted_descending(keys \ {most})

\* sorted(percentile_data.keys())
RECURSIVE sorted(_)
sorted(keys) ==
    IF keys = {} THEN <<>>
    ELSE LET least == CHOOSE k \in keys : \A o \in keys : k <= o
         IN  <<least>> \o sorted(keys \ {least})

\* GrowthPercentile.objects.filter(gender=, chart_type=, standard=)
filter_percentiles(gender, chart_type, standard) ==
    {pk \in DOMAIN percentiles :
        /\ percentiles[pk].gender = gender
        /\ percentiles[pk].chart_type = chart_type
        /\ percentiles[pk].standard = standard}

\* percentile_data: age_in_months -> row, over the filtered rows
percentile_data(pks) ==
    [age \in {percentiles[pk].age_in_months : pk \in pks} |->
        percentiles[CHOOSE pk \in pks : percentiles[pk].age_in_months = age]]

Point(x, y) == [x |-> x, y |-> y]

\* the patient points of api_growth_chart_data with one point dropped
data_points_drop_last(seq, value_key) ==
    [i \in 1..(Len(seq) - 1) |->
        Point(age_at_measurement(measurements[seq[i]]),
              IF value_key = "height" THEN measurements[seq[i]].height
              ELSE measurements[seq[i]].weight)]

\* the patient points with every x the patient's age today
data_points_current_age(seq, value_key) ==
    [i \in 1..Len(seq) |->
        Point(get_age_months(patients[measurements[seq[i]].patient].date_of_birth,
                             today),
              IF value_key = "height" THEN measurements[seq[i]].height
              ELSE measurements[seq[i]].weight)]

\* the loop over measurements of api_growth_chart_data: one point per measurement
data_points(seq, value_key) ==
    [i \in 1..Len(seq) |->
        Point(age_at_measurement(measurements[seq[i]]),
              IF value_key = "height" THEN measurements[seq[i]].height
              ELSE measurements[seq[i]].weight)]

\* the loop over measurements of api_growth_chart_bmi: a point where m.bmi is truthy
RECURSIVE bmi_points(_)
bmi_points(seq) ==
    IF seq = <<>> THEN <<>>
    ELSE LET m == measurements[Head(seq)]
             b == bmi(m.height, m.weight)
         IN  (IF b # None /\ b # Float(0)
              THEN <<Point(age_at_measurement(m), b)>>
              ELSE <<>>) \o bmi_points(Tail(seq))

Xs(points) == [i \in 1..Len(points) |-> points[i].x]

\* the standard chosen from the age at the patient's earliest measurement
standard_at_first_measurement(patient_id) ==
    LET mids == patient_measurements(patient_id)
        first == CHOOSE m \in mids :
                     \A o \in mids : DateLE(measurements[m].measurement_date,
                                            measurements[o].measurement_date)
    IN  applicable_standard(age_at_measurement(measurements[first]))

\* standard = patient.get_applicable_standard(): the reference date defaults to today
chart_standard(patient_id) ==
    get_applicable_standard(patients[patient_id].date_of_birth, today)

\* the body of api_growth_chart_data's JsonResponse, for one order of the rows
growth_chart_data(patient_id, chart_type, seq) ==
    LET patient == patients[patient_id]
        standard == chart_standard(patient_id)
        data == percentile_data(
                    filter_percentiles(patient.gender, Title(chart_type), standard))
        ages == sorted(DOMAIN data)
        value_key == IF Lower(chart_type) = "height" THEN "height" ELSE "weight"
        ylabel == IF Lower(chart_type) = "height" THEN "Height (cm)" ELSE "Weight (kg)"
        points == data_points(seq, value_key)
    IN  [chartData |->
            [labels |-> Xs(points),
             datasets |-> <<
                [label |-> "Patient Measurement", data |-> points],
                [label |-> "50th Percentile (Median)",
                 data |-> [i \in 1..Len(ages) |->
                              Point(ages[i], data[ages[i]].percentile_50th)]],
                [label |-> "2nd Percentile",
                 data |-> [i \in 1..Len(ages) |->
                              Point(ages[i], data[ages[i]].percentile_2nd)]],
                [label |-> "98th Percentile",
                 data |-> [i \in 1..Len(ages) |->
                              Point(ages[i], data[ages[i]].percentile_98th)]]>>],
         title |-> Title(chart_type) \o "-for-Age (" \o patient.gender \o ", "
                       \o standard \o ")",
         yLabel |-> ylabel,
         xLabel |-> "Age (months)"]

\* a divisor of 2 in the BMI approximation
BmiProxyDivisorTwo == Rat(2, 1)

\* the divisor of the BMI approximation
BmiProxyDivisor == Rat(3, 2)

\* the body of api_growth_chart_bmi's JsonResponse, for one order of the rows
\* (the superscript of the y label is written 2)
growth_chart_bmi(patient_id, seq) ==
    LET patient == patients[patient_id]
        standard == chart_standard(patient_id)
        data == percentile_data(filter_percentiles(patient.gender, "Weight", standard))
        ages == sorted(DOMAIN data)
        points == bmi_points(seq)
    IN  [chartData |->
            [labels |-> Xs(points),
             datasets |-> <<
                [label |-> "Patient BMI", data |-> points],
                [label |-> "50th Percentile",
                 data |-> [i \in 1..Len(ages) |->
                              Point(ages[i], RatDiv(data[ages[i]].percentile_50th,
                                                    BmiProxyDivisor))]],
                [label |-> "5th Percentile",
                 data |-> [i \in 1..Len(ages) |->
                              Point(ages[i], RatDiv(data[ages[i]].percentile_5th,
                                                    BmiProxyDivisor))]],
                [label |-> "95th Percentile",
                 data |-> [i \in 1..Len(ages) |->
                              Point(ages[i], RatDiv(data[ages[i]].percentile_95th,
                                                    BmiProxyDivisor))]]>>],
         title |-> "BMI-for-Age (" \o patient.gender \o ", " \o standard \o ")",
         yLabel |-> "BMI (kg/m2)",
         xLabel |-> "Age (months)"]

NoMeasurements == [error |-> "No measurements found"]

\* the empty-queryset test with the branches swapped
has_no_measurements_inverted(mids) == mids # {}

\* not measurements.exists()
has_no_measurements(mids) == mids = {}

tableVars == <<percentiles, nextPercentileId>>
patientVars == <<patients, nextPatientId>>
measurementVars == <<measurements, nextMeasurementId>>

\* patient_create: Patient.objects.create on POST, the form otherwise
patient_create(method, form) ==
    /\ IF method = "POST"
       THEN /\ nextPatientId <= MaxPatients
            /\ patients' = patients @@ (nextPatientId :> form)
            /\ nextPatientId' = nextPatientId + 1
            /\ response' = Answer("patient_create", 302, None)
       ELSE /\ response' = Answer("patient_create", 200, None)
            /\ UNCHANGED patientVars
    /\ UNCHANGED <<today, measurementVars, tableVars, fnVars>>

\* patient_edit: the fields are assigned and saved on POST
patient_edit(pk, method, form) ==
    /\ IF pk \notin DOMAIN patients
       THEN /\ response' = Answer("patient_edit", 404, None)
            /\ UNCHANGED patients
       ELSE IF method = "POST"
       THEN /\ patients' = [patients EXCEPT ![pk] = form]
            /\ response' = Answer("patient_edit", 302, None)
       ELSE /\ response' = Answer("patient_edit", 200, None)
            /\ UNCHANGED patients
    /\ UNCHANGED <<today, nextPatientId, measurementVars, tableVars, fnVars>>

\* a delete that takes no measurement with the patient
cascade_nothing(pk) == {}

\* on_delete=models.CASCADE: the measurements deleted with patient pk
cascade(pk) == patient_measurements(pk)

\* patient_delete: on POST the patient goes, and on_delete=CASCADE takes its measurements
patient_delete(pk, method) ==
    /\ IF pk \notin DOMAIN patients
       THEN /\ response' = Answer("patient_delete", 404, None)
            /\ UNCHANGED <<patients, measurements>>
       ELSE IF method = "POST"
       THEN /\ patients' = [k \in DOMAIN patients \ {pk} |-> patients[k]]
            /\ measurements' =
                   [mid \in DOMAIN measurements \ cascade(pk) |->
                       measurements[mid]]
            /\ response' = Answer("patient_delete", 302, None)
       ELSE /\ response' = Answer("patient_delete", 200, None)
            /\ UNCHANGED <<patients, measurements>>
    /\ UNCHANGED <<today, nextPatientId, nextMeasurementId, tableVars, fnVars>>

\* measurement_create: Measurement.objects.create on POST, no validator runs
measurement_create(patient_id, method, form) ==
    /\ IF patient_id \notin DOMAIN patients
       THEN /\ response' = Answer("measurement_create", 404, None)
            /\ UNCHANGED measurementVars
       ELSE IF method = "POST"
       THEN /\ nextMeasurementId <= MaxMeasurements
            /\ measurements' = measurements @@
                   (nextMeasurementId :>
                       [patient |-> patient_id,
                        measurement_date |-> form.measurement_date,
                        height |-> form.height,
                        weight |-> form.weight])
            /\ nextMeasurementId' = nextMeasurementId + 1
            /\ response' = Answer("measurement_create", 302, None)
       ELSE /\ response' = Answer("measurement_create", 200, None)
            /\ UNCHANGED measurementVars
    /\ UNCHANGED <<today, patientVars, tableVars, fnVars>>

\* the lookup by primary key alone, whoever the measurement belongs to
measurement_of_any_patient(patient_id, measurement_id) ==
    /\ patient_id \in DOMAIN patients
    /\ measurement_id \in DOMAIN measurements

\* get_object_or_404(Measurement, pk=measurement_id, patient=patient)
measurement_of(patient_id, measurement_id) ==
    /\ patient_id \in DOMAIN patients
    /\ measurement_id \in DOMAIN measurements
    /\ measurements[measurement_id].patient = patient_id

\* measurement_edit: the fields are assigned and saved on POST, no validator runs
measurement_edit(patient_id, measurement_id, method, form) ==
    /\ IF ~measurement_of(patient_id, measurement_id)
       THEN /\ response' = HttpResponse("measurement_edit",
                                <<patient_id, measurement_id, method>>, 404, None)
            /\ UNCHANGED measurements
       ELSE IF method = "POST"
       THEN /\ measurements' =
                   [measurements EXCEPT
                       ![measurement_id].measurement_date = form.measurement_date,
                       ![measurement_id].height = form.height,
                       ![measurement_id].weight = form.weight]
            /\ response' = HttpResponse("measurement_edit",
                                <<patient_id, measurement_id, method>>, 302, None)
       ELSE /\ response' = HttpResponse("measurement_edit",
                                <<patient_id, measurement_id, method>>, 200, None)
            /\ UNCHANGED measurements
    /\ UNCHANGED <<today, patientVars, nextMeasurementId, tableVars, fnVars>>

\* measurement_delete: the row goes on POST
measurement_delete(patient_id, measurement_id, method) ==
    /\ IF ~measurement_of(patient_id, measurement_id)
       THEN /\ response' = HttpResponse("measurement_delete",
                                <<patient_id, measurement_id, method>>, 404, None)
            /\ UNCHANGED measurements
       ELSE IF method = "POST"
       THEN /\ measurements' =
                   [mid \in DOMAIN measurements \ {measurement_id} |->
                       measurements[mid]]
            /\ response' = HttpResponse("measurement_delete",
                                <<patient_id, measurement_id, method>>, 302, None)
       ELSE /\ response' = HttpResponse("measurement_delete",
                                <<patient_id, measurement_id, method>>, 200, None)
            /\ UNCHANGED measurements
    /\ UNCHANGED <<today, patientVars, nextMeasurementId, tableVars, fnVars>>

\* api_growth_chart_data: GET only; 404, 400 or the chart
api_growth_chart_data(patient_id, chart_type, method) ==
    /\ IF method # "GET"
       THEN response' = HttpResponse("api_growth_chart_data",
                         <<patient_id, chart_type, method>>, 405, None)
       ELSE IF patient_id \notin DOMAIN patients
       THEN response' = HttpResponse("api_growth_chart_data",
                         <<patient_id, chart_type, method>>, 404, None)
       ELSE IF has_no_measurements(patient_measurements(patient_id))
       THEN response' = HttpResponse("api_growth_chart_data",
                         <<patient_id, chart_type, method>>, 400, NoMeasurements)
       ELSE \E seq \in ordered_measurements(patient_measurements(patient_id)) :
                response' = HttpResponse("api_growth_chart_data",
                                <<patient_id, chart_type, method>>, 200,
                                growth_chart_data(patient_id, chart_type, seq))
    /\ UNCHANGED <<today, patientVars, measurementVars, tableVars, fnVars>>

\* api_growth_chart_bmi: GET only; 404, 400 or the chart
api_growth_chart_bmi(patient_id, method) ==
    /\ IF method # "GET"
       THEN response' = HttpResponse("api_growth_chart_bmi", <<patient_id, method>>,
                                     405, None)
       ELSE IF patient_id \notin DOMAIN patients
       THEN response' = HttpResponse("api_growth_chart_bmi", <<patient_id, method>>,
                                     404, None)
       ELSE IF has_no_measurements(patient_measurements(patient_id))
       THEN response' = HttpResponse("api_growth_chart_bmi", <<patient_id, method>>,
                                     400, NoMeasurements)
       ELSE \E seq \in ordered_measurements(patient_measurements(patient_id)) :
                response' = HttpResponse("api_growth_chart_bmi", <<patient_id, method>>, 200,
                                growth_chart_bmi(patient_id, seq))
    /\ UNCHANGED <<today, patientVars, measurementVars, tableVars, fnVars>>

Init ==
    /\ today \in Todays
    /\ patients = EmptyMap
    /\ nextPatientId = 1
    /\ measurements = EmptyMap
    /\ nextMeasurementId = 1
    /\ percentiles = SeedTable
    /\ nextPercentileId = Len(percentiles) + 1
    /\ response = NoResponse
    /\ obj = IdleObj
    /\ ret = NoCall

PatientIds == 1..MaxPatients
MeasurementIds == 1..MaxMeasurements

Next ==
    \/ \E m \in Methods, f \in PatientForms : patient_create(m, f)
    \/ \E pk \in PatientIds, m \in Methods, f \in PatientForms : patient_edit(pk, m, f)
    \/ \E pk \in PatientIds, m \in Methods : patient_delete(pk, m)
    \/ \E pid \in PatientIds, m \in Methods, f \in MeasurementForms :
           measurement_create(pid, m, f)
    \/ \E pid \in PatientIds, mid \in MeasurementIds, m \in Methods,
          f \in MeasurementForms : measurement_edit(pid, mid, m, f)
    \/ \E pid \in PatientIds, mid \in MeasurementIds, m \in Methods :
           measurement_delete(pid, mid, m)
    \/ \E pid \in PatientIds, ct \in ChartTypeInputs, m \in Methods :
           api_growth_chart_data(pid, ct, m)
    \/ \E pid \in PatientIds, m \in Methods : api_growth_chart_bmi(pid, m)

Spec == Init /\ [][Next]_vars

---------------------------------------------------------------------------
(* The chart endpoints over every database the views above can leave       *)

\* Patient rows under any of the primary keys handed out so far
PatientTables ==
    UNION {[pks -> PatientForms] : pks \in SUBSET PatientIds}

\* Measurement rows under any of the primary keys handed out so far, each
\* belonging to a stored patient (on_delete=CASCADE leaves no other)
MeasurementTables(pks) ==
    UNION {[mids -> {[patient |-> pk, measurement_date |-> f.measurement_date,
                      height |-> f.height, weight |-> f.weight] :
                        pk \in pks, f \in MeasurementForms}] :
              mids \in SUBSET MeasurementIds}

InitChart ==
    /\ today \in Todays
    /\ patients \in PatientTables
    /\ nextPatientId = MaxPatients + 1
    /\ measurements \in MeasurementTables(DOMAIN patients)
    /\ nextMeasurementId = MaxMeasurements + 1
    /\ percentiles = SeedTable
    /\ nextPercentileId = Len(percentiles) + 1
    /\ response = NoResponse
    /\ obj = IdleObj
    /\ ret = NoCall

\* one chart request in each state of the tables: the chart endpoints write
\* nothing, so a later request would be answered as if it were the first
chart_data_request ==
    /\ response = NoResponse
    /\ \E pid \in PatientIds, ct \in ChartTypeInputs, m \in Methods :
           api_growth_chart_data(pid, ct, m)

chart_bmi_request ==
    /\ response = NoResponse
    /\ \E pid \in PatientIds, m \in Methods : api_growth_chart_bmi(pid, m)

NextChart == chart_data_request \/ chart_bmi_request

SpecChart == InitChart /\ [][NextChart]_vars

---------------------------------------------------------------------------
(* C1: get_applicable_standard returns WHO exactly when the age in months  *)
(* is at most 24 and CDC exactly when it is above 24, and nothing else.    *)
C1_StandardByAge ==
    ret.op = "get_applicable_standard" =>
        /\ ret.raised = None
        /\ ret.value \in {WHO, CDC}
        /\ (ret.value = WHO) <=> (ObjAge <= 24)
        /\ (ret.value = CDC) <=> (ObjAge > 24)

\* the boundary month 24 has been classified
C1_Witness ==
    /\ ret.op = "get_applicable_standard"
    /\ ObjAge = 24
    /\ ret.value = WHO

(* C2: for a reference date on or after the birth date the age in months   *)
(* is non-negative, and no later reference date gives a smaller age.       *)
C2_AgeNonNegativeMonotone ==
    (ret.op = "get_age_months" /\ DateLE(obj.date_of_birth, obj.reference_date)) =>
        /\ ret.value >= 0
        /\ \A r2 \in FnRefDates :
               DateLE(obj.reference_date, r2) =>
                   ret.value <= get_age_months(obj.date_of_birth, r2)

\* a positive age that a later reference date strictly increases
C2_Witness ==
    /\ ret.op = "get_age_months"
    /\ DateLT(obj.date_of_birth, obj.reference_date)
    /\ ret.value >= 12
    /\ \E r2 \in FnRefDates :
           /\ DateLT(obj.reference_date, r2)
           /\ ret.value < get_age_months(obj.date_of_birth, r2)

(* C3: whenever the reference date precedes the birth date, get_age_months,*)
(* get_age_display and get_applicable_standard fail with InvalidDateError  *)
(* and return no month count.                                              *)
C3_InvalidDateError ==
    (/\ ret.op \in {"get_age_months", "get_age_display", "get_applicable_standard"}
     /\ DateLT(obj.reference_date, obj.date_of_birth)) =>
        ret.raised = "InvalidDateError"

\* the birth date advanced by n calendar months, the day clamped to the month's end
AdvanceMonths(dt, n) ==
    LET total == Year(dt) * 12 + (Month(dt) - 1) + n
        y == total \div 12
        m == (total % 12) + 1
        last == DaysInMonth(y, m)
    IN  <<y, m, IF Day(dt) > last THEN last ELSE Day(dt)>>

(* C4: for a reference date on or after the birth date the age is the      *)
(* number of completed calendar months: the largest n such that the birth  *)
(* date advanced by n months, day clamped, is not after the reference date;*)
(* 2023-06-01 to 2023-08-01 is 2 and 2023-01-31 to 2023-03-01 is 1.        *)
C4_CompletedCalendarMonths ==
    (ret.op = "get_age_months" /\ DateLE(obj.date_of_birth, obj.reference_date)) =>
        /\ ret.value >= 0
        /\ DateLE(AdvanceMonths(obj.date_of_birth, ret.value), obj.reference_date)
        /\ \A k \in 0..(12 * (NumYears + 1)) :
               DateLE(AdvanceMonths(obj.date_of_birth, k), obj.reference_date)
                   => k <= ret.value
        /\ (obj.date_of_birth = <<2023, 6, 1>> /\ obj.reference_date = <<2023, 8, 1>>)
               => ret.value = 2
        /\ (obj.date_of_birth = <<2023, 1, 31>> /\ obj.reference_date = <<2023, 3, 1>>)
               => ret.value = 1

\* the month-end example: 2023-01-31 evaluated at 2023-03-01
C4_Witness ==
    /\ ret.op = "get_age_months"
    /\ obj.date_of_birth = <<2023, 1, 31>>
    /\ obj.reference_date = <<2023, 3, 1>>
    /\ ret.value = 1

(* C5: for an age m >= 0, get_age_display is "<m> months" when m < 12 and  *)
(* "<Y> years <M> months" with Y = m // 12 and M = m % 12 otherwise.       *)
C5_AgeDisplay ==
    (ret.op = "get_age_display" /\ ObjAge >= 0) =>
        /\ ret.raised = None
        /\ ObjAge < 12 => ret.value = ToString(ObjAge) \o " months"
        /\ ObjAge >= 12 =>
               \E Y \in 1..(NumYears + 1), M \in 0..11 :
                   /\ Y * 12 + M = ObjAge
                   /\ ret.value = ToString(Y) \o " years " \o ToString(M) \o " months"

\* exactly one year has been rendered
C5_Witness ==
    /\ ret.op = "get_age_display"
    /\ ObjAge = 12
    /\ ret.value = "1 years 0 months"

(* C6: bmi is weight / (height/100)^2, unrounded, for every height > 0,    *)
(* whatever the range, and None for every height <= 0; it never raises.    *)
C6_Bmi ==
    ret.op = "bmi" =>
        /\ ret.raised = None
        /\ RatLT(Float(0), obj.height) =>
               /\ ret.value # None
               /\ ret.value[1] * obj.weight[2] * obj.height[1] * obj.height[1]
                      = ret.value[2] * obj.weight[1] * 10000
                            * obj.height[2] * obj.height[2]
        /\ RatLE(obj.height, Float(0)) => ret.value = None

\* height 65.0 and weight 7.5 give a BMI of 17.75...
C6_Witness ==
    /\ ret.op = "bmi"
    /\ obj.height = Float(65)
    /\ obj.weight = Rat(15, 2)
    /\ RatLT(Rat(1775, 100), ret.value)
    /\ RatLT(ret.value, Rat(1776, 100))

(* C7: no two stored reference rows ever share the key (age_in_months,    *)
(* gender, chart_type, standard): an insert whose key is already stored    *)
(* fails with a UniqueConstraintViolation and leaves the table unchanged.  *)
C7_UniqueKey ==
    [][/\ \A pk1, pk2 \in DOMAIN percentiles' :
              pk1 # pk2 =>
                  unique_together(percentiles'[pk1]) # unique_together(percentiles'[pk2])
       /\ \A row \in RowInputs :
              (/\ response'.view = "admin_add_growthpercentile"
               /\ admin_add_growthpercentile(row)
               /\ \E pk \in DOMAIN percentiles :
                      unique_together(percentiles[pk]) = unique_together(row))
                  => /\ response'.body = "UniqueConstraintViolation"
                     /\ percentiles' = percentiles]_vars

\* a second row with a stored key has been refused, beside a row that differs in
\* the standard alone
C7_Witness ==
    /\ response.view = "admin_add_growthpercentile"
    /\ response.body = "UniqueConstraintViolation"
    /\ Cardinality(DOMAIN percentiles) = 2
    /\ \E pk1, pk2 \in DOMAIN percentiles :
           /\ percentiles[pk1].standard # percentiles[pk2].standard
           /\ percentiles[pk1].age_in_months = percentiles[pk2].age_in_months
           /\ percentiles[pk1].gender = percentiles[pk2].gender
           /\ percentiles[pk1].chart_type = percentiles[pk2].chart_type

ChartViews == {"api_growth_chart_data", "api_growth_chart_bmi"}

\* the last request was a GET of a chart endpoint for a stored patient; no view
\* has run since, so the tables are those it read
ChartRequested ==
    /\ response.view \in ChartViews
    /\ response.args[Len(response.args)] = "GET"
    /\ response.args[1] \in DOMAIN patients

\* the patient-point series of a chart response
PatientPoints(resp) == resp.body.chartData.datasets[1].data

(* C8: a chart request (either endpoint) for a patient without any         *)
(* measurement answers 400 'No measurements found' and no chart data; for  *)
(* a patient with at least one measurement it never answers that error.    *)
C8_NoMeasurementsError ==
    ChartRequested =>
        IF patient_measurements(response.args[1]) = {}
        THEN /\ response.status = 400
             /\ response.body = [error |-> "No measurements found"]
        ELSE /\ response.status = 200
             /\ "error" \notin DOMAIN response.body
             /\ "chartData" \in DOMAIN response.body

\* the error has been answered for a patient while another patient has measurements
C8_Witness ==
    /\ ChartRequested
    /\ response.status = 400
    /\ response.body = [error |-> "No measurements found"]
    /\ patient_measurements(response.args[1]) = {}
    /\ \E pid \in DOMAIN patients : patient_measurements(pid) # {}

(* C9: for every patient with at least one measurement and every chart     *)
(* (Height, Weight, BMI) the patient-point series is as long as the        *)
(* patient has measurements.                                               *)
C9_SeriesLength ==
    (ChartRequested /\ patient_measurements(response.args[1]) # {}) =>
        /\ response.status = 200
        /\ Len(PatientPoints(response))
               = Cardinality(patient_measurements(response.args[1]))

(* C10: in every chart response the ages (x) of the patient points are     *)
(* non-decreasing from the first point to the last, whatever the order in  *)
(* which the measurements were recorded or edited.                         *)
C10_AgesNonDecreasing ==
    (response.view \in ChartViews /\ response.status = 200) =>
        \A i, j \in 1..Len(PatientPoints(response)) :
            i < j => PatientPoints(response)[i].x <= PatientPoints(response)[j].x

\* two points in age order for a patient whose later measurement was recorded first
C10_Witness ==
    /\ response.view = "api_growth_chart_data"
    /\ response.status = 200
    /\ Len(PatientPoints(response)) = 2
    /\ PatientPoints(response)[1].x < PatientPoints(response)[2].x
    /\ \E m1, m2 \in DOMAIN measurements :
           /\ m1 < m2
           /\ measurements[m1].patient = measurements[m2].patient
           /\ DateLT(measurements[m2].measurement_date,
                     measurements[m1].measurement_date)

\* the patient of the chart request that was answered
ChartPatient == patients[response.args[1]]

\* the chart type whose reference rows the chart that was answered reads
ChartRowType ==
    IF response.view = "api_growth_chart_bmi" THEN "Weight"
    ELSE Title(response.args[2])

\* WHO up to 24 months on the evaluation date, CDC above
StandardToday ==
    IF get_age_months(ChartPatient.date_of_birth, today) <= 24 THEN WHO ELSE CDC

\* the reference rows of a standard for the chart that was answered
ChartRows(standard) ==
    {pk \in DOMAIN percentiles :
        /\ percentiles[pk].gender = ChartPatient.gender
        /\ percentiles[pk].chart_type = ChartRowType
        /\ percentiles[pk].standard = standard}

Curve(k) == response.body.chartData.datasets[k].data

(* C11: a chart has one growth standard, chosen from the patient's age on   *)
(* the evaluation date and never from the age at a measurement: a patient   *)
(* older than 24 months on that date gets CDC curves even when every        *)
(* measurement was taken at 24 months or less, and the three reference      *)
(* curves of a chart and its title all come from that one standard.         *)
C11_StandardAtEvaluation ==
    (ChartRequested /\ response.status = 200) =>
        /\ \A k \in 2..4 :
               {Curve(k)[i].x : i \in 1..Len(Curve(k))}
                   = {percentiles[pk].age_in_months : pk \in ChartRows(StandardToday)}
        /\ \E prefix \in {"Height", "Weight", "Bmi", "BMI"} :
               response.body.title
                   = prefix \o "-for-Age (" \o ChartPatient.gender \o ", "
                         \o StandardToday \o ")"

\* CDC curves for a patient of 25 months whose measurements were all taken at
\* 24 months or less
C11_Witness ==
    /\ ChartRequested
    /\ response.status = 200
    /\ get_age_months(ChartPatient.date_of_birth, today) > 24
    /\ \A mid \in patient_measurements(response.args[1]) :
           get_age_months(ChartPatient.date_of_birth,
                          measurements[mid].measurement_date) \in 0..24
    /\ Len(Curve(2)) > 0
    /\ \A k \in 2..4 : \A i \in 1..Len(Curve(k)) :
           \E pk \in ChartRows(CDC) : percentiles[pk].age_in_months = Curve(k)[i].x
    /\ ChartRows(WHO) # {}

\* a 200 answer of the Height/Weight endpoint to a height or weight request
HeightWeightChart ==
    /\ response.view = "api_growth_chart_data"
    /\ ChartRequested
    /\ response.status = 200
    /\ Lower(response.args[2]) \in {"height", "weight"}

\* the one-to-one listings of a set
Listings(set) ==
    {seq \in [1..Cardinality(set) -> set] :
        \A i, j \in 1..Cardinality(set) : i # j => seq[i] # seq[j]}

(* C12: in a Height or Weight chart every measurement of the patient gives  *)
(* one patient point whose x is the age in months at the measurement's own  *)
(* date (not the age on the evaluation date) and whose y is the             *)
(* measurement's height in a Height chart, its weight in a Weight chart.    *)
C12_PointPerMeasurement ==
    HeightWeightChart =>
        \E seq \in Listings(patient_measurements(response.args[1])) :
            /\ Len(PatientPoints(response)) = Len(seq)
            /\ \A i \in 1..Len(seq) :
                   /\ PatientPoints(response)[i].x
                          = get_age_months(ChartPatient.date_of_birth,
                                           measurements[seq[i]].measurement_date)
                   /\ PatientPoints(response)[i].y
                          = IF Lower(response.args[2]) = "height"
                            THEN measurements[seq[i]].height
                            ELSE measurements[seq[i]].weight

\* a Height chart with the point (1 month, 65 cm) of a measurement of 7.5 kg, for
\* a patient who is 24 months or more on the evaluation date
C12_Witness ==
    /\ HeightWeightChart
    /\ Lower(response.args[2]) = "height"
    /\ get_age_months(ChartPatient.date_of_birth, today) >= 24
    /\ \E i \in 1..Len(PatientPoints(response)) :
           PatientPoints(response)[i] = Point(1, Float(65))
    /\ \E mid \in patient_measurements(response.args[1]) :
           /\ measurements[mid].height = Float(65)
           /\ measurements[mid].weight = Rat(15, 2)

\* whether curve k has exactly the points (age, value) of the rows, in
\* strictly ascending age
CurveOfRows(k, rows, Value(_)) ==
    /\ Len(Curve(k)) = Cardinality(rows)
    /\ \A pk \in rows :
           \E i \in 1..Len(Curve(k)) :
               Curve(k)[i] = Point(percentiles[pk].age_in_months, Value(percentiles[pk]))
    /\ \A i, j \in 1..Len(Curve(k)) : i < j => Curve(k)[i].x < Curve(k)[j].x

(* C13: the 50th, 2nd and 98th percentile curves of a Height/Weight chart   *)
(* each hold exactly one point per reference row matching (patient gender,  *)
(* chart type, selected standard), x the row's age_in_months and y the      *)
(* row's percentile, in strictly ascending age; the points depend on the    *)
(* table alone, not on the ages of the patient's measurements, and no       *)
(* point stands at an age that has no row.                                  *)
C13_CurvePointPerRow ==
    HeightWeightChart =>
        LET rows == ChartRows(StandardToday)
            P50(row) == row.percentile_50th
            P2(row) == row.percentile_2nd
            P98(row) == row.percentile_98th
        IN  /\ CurveOfRows(2, rows, P50)
            /\ CurveOfRows(3, rows, P2)
            /\ CurveOfRows(4, rows, P98)

\* curves at the ages 0 and 12 of the table, from rows stored in the other
\* order, for a patient without a measurement at either age
C13_Witness ==
    /\ HeightWeightChart
    /\ Len(Curve(2)) = 2
    /\ Curve(2)[1].x = 0
    /\ Curve(2)[2].x = 12
    /\ \E pk1, pk2 \in ChartRows(StandardToday) :
           /\ pk1 < pk2
           /\ percentiles[pk1].age_in_months > percentiles[pk2].age_in_months
    /\ \A i \in 1..Len(PatientPoints(response)) :
           PatientPoints(response)[i].x \notin {0, 12}

(* C14: in a BMI chart the reference curves are taken from the Weight rows  *)
(* for (patient gender, selected standard): one point per row at the row's  *)
(* age, with the row's 50th, 5th and 95th percentile each divided by 1.5    *)
(* (a 50th percentile of 12.0 gives exactly 8.0).                           *)
C14_BmiProxyCurves ==
    (response.view = "api_growth_chart_bmi" /\ ChartRequested
        /\ response.status = 200) =>
        LET rows == {pk \in DOMAIN percentiles :
                        /\ percentiles[pk].gender = ChartPatient.gender
                        /\ percentiles[pk].chart_type = "Weight"
                        /\ percentiles[pk].standard = StandardToday}
            Shown(k, pk) ==
                CHOOSE pt \in {Curve(k)[i] : i \in 1..Len(Curve(k))} :
                    pt.x = percentiles[pk].age_in_months
        IN  /\ \A k \in 2..4 :
                   /\ Len(Curve(k)) = Cardinality(rows)
                   /\ {Curve(k)[i].x : i \in 1..Len(Curve(k))}
                          = {percentiles[pk].age_in_months : pk \in rows}
            /\ \A pk \in rows :
                   /\ RatMul(Shown(2, pk).y, Rat(3, 2)) = percentiles[pk].percentile_50th
                   /\ RatMul(Shown(3, pk).y, Rat(3, 2)) = percentiles[pk].percentile_5th
                   /\ RatMul(Shown(4, pk).y, Rat(3, 2)) = percentiles[pk].percentile_95th

\* the 50th curve shows 8.0 at the age of a Weight row whose 50th percentile is 12.0
C14_Witness ==
    /\ response.view = "api_growth_chart_bmi"
    /\ ChartRequested
    /\ response.status = 200
    /\ \E pk \in DOMAIN percentiles :
           /\ percentiles[pk].gender = ChartPatient.gender
           /\ percentiles[pk].chart_type = "Weight"
           /\ percentiles[pk].standard = StandardToday
           /\ percentiles[pk].percentile_50th = Float(12)
           /\ \E i \in 1..Len(Curve(2)) :
                  Curve(2)[i] = Point(percentiles[pk].age_in_months, Float(8))

(* C15: a BMI chart is built whatever the measurements: the measurements    *)
(* left out of the patient BMI series are exactly those with height <= 0,   *)
(* every measurement with height > 0 appears with y = its BMI, and the      *)
(* reference curves are still produced.                                     *)
C15_OmitsExactlyNonPositiveHeight ==
    (response.view = "api_growth_chart_bmi" /\ ChartRequested) =>
        (patient_measurements(response.args[1]) # {} =>
            /\ response.status = 200
            /\ \E seq \in Listings({mid \in patient_measurements(response.args[1]) :
                                      RatLT(Float(0), measurements[mid].height)}) :
                   /\ Len(PatientPoints(response)) = Len(seq)
                   /\ \A i \in 1..Len(seq) :
                          PatientPoints(response)[i].y
                              = RatDiv(measurements[seq[i]].weight,
                                       RatMul(RatDiv(measurements[seq[i]].height,
                                                     Float(100)),
                                              RatDiv(measurements[seq[i]].height,
                                                     Float(100))))
            /\ \A k \in 2..4 :
                   Len(Curve(k)) = Cardinality(ChartRows(StandardToday)))

(* C16: after any sequence of measurement creates and edits every stored    *)
(* measurement has its height in [10, 250] and its weight in [1, 200]: a    *)
(* write outside these ranges is rejected and stores nothing.               *)
C16_StoredRanges ==
    \A mid \in DOMAIN measurements :
        /\ RatLE(Float(10), measurements[mid].height)
        /\ RatLE(measurements[mid].height, Float(250))
        /\ RatLE(Float(1), measurements[mid].weight)
        /\ RatLE(measurements[mid].weight, Float(200))

(* C17: after any sequence of patient creates and edits (a change of the    *)
(* birth date included) and measurement creates and edits, the date of      *)
(* every stored measurement is on or after the birth date of its patient.   *)
C17_DateNotBeforeBirth ==
    \A mid \in DOMAIN measurements :
        measurements[mid].patient \in DOMAIN patients =>
            DateLE(patients[measurements[mid].patient].date_of_birth,
                   measurements[mid].measurement_date)

ChartBuildWritesNothing ==
    [][response'.view \in ChartViews =>
          UNCHANGED <<patients, nextPatientId, measurements, nextMeasurementId,
                      percentiles, nextPercentileId, today>>]_vars

(* C19: after any sequence of patient creates and deletes and measurement   *)
(* creates, edits and deletes, every stored measurement belongs to one      *)
(* stored patient: a POST patient delete removes all the measurements of    *)
(* that patient and none of another, and a delete request that is not a     *)
(* POST removes nothing.                                                    *)
C19_Ownership ==
    [][/\ \A mid \in DOMAIN measurements' :
              measurements'[mid].patient \in DOMAIN patients'
       /\ response'.view = "patient_delete" =>
              IF response'.status = 302
              THEN \E pk \in DOMAIN patients :
                       /\ DOMAIN patients' = DOMAIN patients \ {pk}
                       /\ \A o \in DOMAIN patients' : patients'[o] = patients[o]
                       /\ DOMAIN measurements'
                              = {mid \in DOMAIN measurements :
                                    measurements[mid].patient # pk}
                       /\ \A mid \in DOMAIN measurements' :
                              measurements'[mid] = measurements[mid]
              ELSE UNCHANGED <<patients, measurements>>]_vars

\* a patient has been deleted with a measurement: two patients and two
\* measurements were created, one measurement of the other patient is what is left
C19_Witness ==
    /\ response.view = "patient_delete"
    /\ response.status = 302
    /\ nextPatientId = 3
    /\ nextMeasurementId = 3
    /\ Cardinality(DOMAIN patients) = 1
    /\ Cardinality(DOMAIN measurements) = 1
    /\ \A mid \in DOMAIN measurements : measurements[mid].patient \in DOMAIN patients

(* C20: measurement_edit and measurement_delete called with (patient_id,    *)
(* measurement_id) change or remove only that measurement and only if it    *)
(* belongs to that patient; for a measurement of another patient the        *)
(* request is answered not-found and every stored measurement is left as it *)
(* was; an edit never changes the patient a measurement belongs to.         *)
C20_OnlyOwnMeasurement ==
    [][response'.view \in {"measurement_edit", "measurement_delete"} =>
          LET patient_id == response'.args[1]
              measurement_id == response'.args[2]
              method == response'.args[3]
              owned == /\ patient_id \in DOMAIN patients
                       /\ measurement_id \in DOMAIN measurements
                       /\ measurements[measurement_id].patient = patient_id
          IN  /\ UNCHANGED patients
              /\ IF ~owned
                 THEN /\ response'.status = 404
                      /\ UNCHANGED measurements
                 ELSE IF method # "POST"
                 THEN /\ response'.status = 200
                      /\ UNCHANGED measurements
                 ELSE IF response'.view = "measurement_edit"
                 THEN /\ response'.status = 302
                      /\ DOMAIN measurements' = DOMAIN measurements
                      /\ \A o \in DOMAIN measurements \ {measurement_id} :
                             measurements'[o] = measurements[o]
                      /\ measurements'[measurement_id].patient = patient_id
                 ELSE /\ response'.status = 302
                      /\ DOMAIN measurements' = DOMAIN measurements \ {measurement_id}
                      /\ \A o \in DOMAIN measurements' :
                             measurements'[o] = measurements[o]]_vars

\* an edit or delete of a stored measurement through another stored patient
\* has been answered 404
C20_Witness ==
    /\ response.view \in {"measurement_edit", "measurement_delete"}
    /\ response.status = 404
    /\ response.args[3] = "POST"
    /\ response.args[1] \in DOMAIN patients
    /\ response.args[2] \in DOMAIN measurements
    /\ measurements[response.args[2]].patient # response.args[1]

\* whether the Height/Weight chart that was answered is, in every part, the
\* chart of one type: its patient y values, the rows behind its curves, its
\* y label and its title
ChartIsOfType(chart_type, value_key, ylabel) ==
    /\ \E seq \in Listings(patient_measurements(response.args[1])) :
           /\ Len(PatientPoints(response)) = Len(seq)
           /\ \A i \in 1..Len(seq) :
                  PatientPoints(response)[i].y = measurements[seq[i]][value_key]
    /\ \A k \in 2..4 :
           {Curve(k)[i].x : i \in 1..Len(Curve(k))}
               = {percentiles[pk].age_in_months :
                     pk \in {r \in DOMAIN percentiles :
                                /\ percentiles[r].gender = ChartPatient.gender
                                /\ percentiles[r].chart_type = chart_type
                                /\ percentiles[r].standard = StandardToday}}
    /\ response.body.yLabel = ylabel
    /\ response.body.title
           = chart_type \o "-for-Age (" \o ChartPatient.gender \o ", "
                 \o StandardToday \o ")"

(* C21: for every chart_type the Height/Weight endpoint accepts, the        *)
(* patient y values, the chart type that filters the reference rows, the y  *)
(* label and the title are those of one chart type: weight values and the   *)
(* label 'Weight (kg)' never come with a title or a filter of another chart *)
(* type, whatever string is requested ('bmi' for one).                      *)
C21_OneChartType ==
    (response.view = "api_growth_chart_data" /\ ChartRequested
        /\ response.status = 200) =>
        \/ ChartIsOfType("Height", "height", "Height (cm)")
        \/ ChartIsOfType("Weight", "weight", "Weight (kg)")

===========================================================================
